---- MODULE Spec2Model ----
(***************************************************************************)
(* Route-planning and trip-state client (the Planner component of          *)
(* src/src/App.jsx).                                                       *)
(*                                                                         *)
(* One action is one event handled to completion by the single-threaded    *)
(* event loop: a user intent together with the re-render and the           *)
(* auto-recompute effect that follow it, or the continuation of an         *)
(* awaited network call.                                                   *)
(*                                                                         *)
(* Number encodings.  Coordinates are integers in units of 0.0001 degree   *)
(* (the step of the numeric inputs).  distance_m is an integer in tenths   *)
(* of a metre, distance_km an integer in thousandths of a kilometre.       *)
(* JavaScript null and undefined are both falsy and the code only tests    *)
(* truthiness, so one value stands for both in each domain.                *)
(* Distances whose third decimal of a kilometre is an exact tie (x.5 m)    *)
(* are left out of the candidates: toFixed rounds the binary value, which  *)
(* lies on either side of such a tie.                                      *)
(***************************************************************************)
EXTENDS Integers, Sequences, FiniteSets, TLC

\* ------------------------------------------------------------------ bounds
\* Largest number of plan requests awaiting their response at one time.
MaxInflight == 2

\* Largest number of loadTrips calls, of create-trip posts and of delete-trip
\* calls awaiting a response at one time.
MaxLoads == 2

MaxCreates == 1

MaxDeletes == 1

\* Largest number of plan requests in flight while the trip history is used.
MaxTripPlans == 1

\* Last value of the clock at which a bookmark is added.
MaxNow == 3

\* ------------------------------------------------------------ value domains
Modes == {"balanced", "night_safe"}

TimeBuckets == {"day", "night"}

NoMode == "undefined"

NoRoute == 0

Undefined == -1

Point(lat, lon) == [lat |-> lat, lon |-> lon]

NoPoint == [none |-> TRUE]

DefaultStart == Point(286315, 772167)

DefaultEnd == Point(286129, 772295)

\* Values typed into the numeric inputs, and points clicked on the map.
LatInputs == {286129}

LonInputs == {772167}

ClickPoints == {Point(286129, 772167)}

\* parseFloat of a text that is no number, for instance the emptied input.
NaN == 99999999

\* The JSON value null.
Null == 88888888

\* Values typed into the latitude inputs, among them 91 degrees and no
\* number at all, and points clicked on the map, for the input handlers.
TypedLats == {286129, 910000, NaN}

MapPoints == {Point(286129, 772167), Point(286200, 772200)}

\* Route candidates the Planning Service can return, by object identity.
Candidates == {1, 2, 3}

\* Geometry coordinates are [lon, lat] pairs in 1e-5 degree.  Candidate 4
\* starts 0.00002 degree east of candidate 1, candidate 5 has no geometry,
\* candidate 6 is one metre longer than candidate 1.
RouteOf(c) ==
  CASE c = 1 -> [geometry |-> <<<<7721670, 2863150>>, <<7722950, 2861290>>>>,
                 distance_m |-> 16500, eta_minutes |-> 12,
                 average_safety_score |-> 80]
    [] c = 2 -> [geometry |-> <<<<7721670, 2863150>>, <<7722950, 2861290>>>>,
                 distance_m |-> 16504, eta_minutes |-> 15,
                 average_safety_score |-> 90]
    [] c = 3 -> [geometry |-> <<<<7721670, 2863150>>, <<7721670, 2861290>>>>,
                 distance_m |-> 23047, eta_minutes |-> 9,
                 average_safety_score |-> 55]
    [] c = 4 -> [geometry |-> <<<<7721672, 2863150>>, <<7722950, 2861290>>>>,
                 distance_m |-> 16500, eta_minutes |-> 12,
                 average_safety_score |-> 80]
    [] c = 5 -> [geometry |-> <<>>,
                 distance_m |-> 16500, eta_minutes |-> 12,
                 average_safety_score |-> 80]
    [] c = 6 -> [geometry |-> <<<<7721670, 2863150>>, <<7722950, 2861290>>>>,
                 distance_m |-> 16510, eta_minutes |-> 12,
                 average_safety_score |-> 80]

\* Bodies the Planning Service can answer with.  The alternatives field is
\* <<>> when the body has no such field and <<list>> when it has one.
WellFormed ==
  { [mode |-> "balanced", chosen |-> 1, alternatives |-> << <<1, 2>> >>],
    [mode |-> "night_safe", chosen |-> 3, alternatives |-> << <<2>> >>],
    [mode |-> "night_safe", chosen |-> 3, alternatives |-> <<>>] }

Malformed == [mode |-> NoMode, chosen |-> NoRoute, alternatives |-> <<>>]

Responses == WellFormed \cup {Malformed}

\* Trips held by the backend for the user, and the persisted bookmarks.
ServerTrips ==
  << [_id |-> "t1", origin |-> Point(286129, 772167),
      destination |-> DefaultEnd, mode |-> "night_safe"],
     [_id |-> "t2", origin |-> DefaultStart,
      destination |-> DefaultEnd, mode |-> "balanced"] >>

\* Bookmark names are sequences of characters; the initial content of the
\* name input stands for 'Home <-> Work'.
DefaultName == << "h", " ", "w" >>

\* Bookmark ids are the clock values of b_<Date.now()>.
StoredBookmarks ==
  << [id |-> 0, name |-> << "h" >>, start |-> DefaultStart,
      end |-> Point(286129, 772167)] >>

\* The sr_bookmarks entry of localStorage: absent, a text JSON.parse
\* rejects, or the serialisation of a bookmark array.
Absent == [kind |-> "absent", items |-> <<>>]

Garbage == [kind |-> "garbage", items |-> <<>>]

Stored(items) == [kind |-> "json", items |-> items]

NoOpts == [start |-> NoPoint, end |-> NoPoint, mode |-> NoMode,
           time_of_day |-> NoMode]

NoResult == [none |-> TRUE]

NoSummary == [none |-> TRUE]

\* Values of the user id input; the empty one is falsy.
UserIds == {"user_a", ""}

NoId == ""

\* Bodies the backend can answer a trip-list, a summary and a create-trip
\* call with.  The trips field is <<>> when the body has no such field.
ListBodies ==
  { [trips |-> << ServerTrips >>], [trips |-> << <<>> >>], [trips |-> <<>>] }

SummaryBodies ==
  { [total_trips |-> 0, total_km |-> 0, avg_safety |-> 0,
     favorite_mode |-> NoMode],
    [total_trips |-> 2, total_km |-> 3955, avg_safety |-> 68,
     favorite_mode |-> "balanced"] }

CreateBodies == { [trip_id |-> "t3"], [trip_id |-> NoId] }

\* Log status messages.
Saved == "Saved to history"

CouldNotSave == "Could not save, try again"

VARIABLES
  mode, timeOfDay, autoRefresh, result,
  start, end, selecting,
  chosenRoute, alternatives, logStatus,
  trips, bookmarks,
  ev,            \* the event handled last
  posted,        \* the plan requests posted by the event handled last
  inflight,      \* plan requests awaiting their response, in issue order
  lastResponse,  \* the plan response that resolved last, <<>> before any
  userId, summary, loadingTrips,
  loads,         \* loadTrips calls awaiting a response, in issue order
  creates,       \* create-trip posts awaiting their response
  deletes,       \* delete-trip calls awaiting their response
  tripFilter,    \* the value of the trip filter select
  bookmarkName,
  storage,       \* the sr_bookmarks entry of localStorage
  storageOk,     \* whether setItem on localStorage succeeds
  now,           \* the clock read by Date.now()
  traced,        \* whether the two history variables below are kept
  asked,         \* history: the bodies of the plan requests in flight
  appliedFor     \* history: the body whose response was applied last

\* The state of the trip history client and of the bookmark store that the
\* planning handlers never touch.
tripState == << userId, summary, loadingTrips, loads, creates, deletes,
               tripFilter >>

storeState == << bookmarkName, storage, storageOk, now >>

\* The history of the plan requests: which body each request in flight was
\* posted with, and which body the response applied last had answered.  The
\* client keeps neither; the specifications that read them set traced.
planHistory == << traced, asked, appliedFor >>

vars == << mode, timeOfDay, autoRefresh, result, start, end, selecting,
           chosenRoute, alternatives, logStatus, trips, bookmarks,
           ev, posted, inflight, lastResponse, tripState, storeState,
           planHistory >>

inputs == << mode, timeOfDay, start, end >>

\* ------------------------------------------------------------ pure helpers
\* The conversion with the digits after the third decimal cut off.
ToFixed3KmTruncated(distance_m) == distance_m \div 10

\* Number((distance_m / 1000).toFixed(3)), in thousandths of a kilometre.
ToFixed3Km(distance_m) == (distance_m + 5) \div 10

\* data.alternatives || []
OrEmpty(field) == IF field = <<>> THEN <<>> ELSE field[1]

\* The display summary built from a response body.
Summary(data) ==
  [mode |-> data.mode,
   eta_minutes |-> IF data.chosen # NoRoute
                   THEN RouteOf(data.chosen).eta_minutes ELSE Undefined,
   average_safety_score |-> IF data.chosen # NoRoute
                   THEN RouteOf(data.chosen).average_safety_score
                   ELSE Undefined,
   distance_km |-> IF data.chosen # NoRoute
                   THEN ToFixed3Km(RouteOf(data.chosen).distance_m)
                   ELSE Undefined]

\* The request body built from the session's values alone.
PlanBodyNoOverride(opts) ==
  [start |-> start, end |-> end, mode |-> mode, time_of_day |-> timeOfDay]

\* The request body showSafest(opts) posts: opts?.x || x for each field.
PlanBody(opts) ==
  [start |-> IF opts.start # NoPoint THEN opts.start ELSE start,
   end |-> IF opts.end # NoPoint THEN opts.end ELSE end,
   mode |-> IF opts.mode # NoMode THEN opts.mode ELSE mode,
   time_of_day |-> IF opts.time_of_day # NoMode
                   THEN opts.time_of_day ELSE timeOfDay]

\* A stale closure: the effect posts the inputs of the previous render.
EffectBodyStale(s, e, m, t) ==
  [start |-> start, end |-> end, mode |-> mode, time_of_day |-> timeOfDay]

\* The request the auto-recompute effect posts after a render that committed
\* the inputs s, e, m, t: showSafest() with no options, closed over them.
EffectBody(s, e, m, t) ==
  [start |-> s, end |-> e, mode |-> m, time_of_day |-> t]

\* A posted request: its body and the call site that posted it.
Entry(body, by) == [body |-> body, by |-> by]

\* A request in flight, with whether a response has been applied since it was
\* posted (answered) and whether that was the response to a request posted
\* after it (overtaken).  The client never reads a request's body again once
\* it is posted, and the service may answer any request with any body, so
\* the body is kept in posted only.
Pending(req) == [answered |-> FALSE, overtaken |-> FALSE]

\* The effect guarded by the chosen route instead of the summary.
AutoRecomputeIfRoute(changed, s, e, m, t) ==
  IF changed /\ autoRefresh /\ chosenRoute # NoRoute
  THEN << Entry(EffectBody(s, e, m, t), "effect") >>
  ELSE <<>>

\* The effect without the test of the auto-refresh flag.
AutoRecomputeAlways(changed, s, e, m, t) ==
  IF changed /\ result # NoResult
  THEN << Entry(EffectBody(s, e, m, t), "effect") >>
  ELSE <<>>

\* The auto-recompute effect: runs when a dependency changed, and calls
\* showSafest() when autoRefresh and result are truthy.
AutoRecompute(changed, s, e, m, t) ==
  IF changed /\ autoRefresh /\ result # NoResult
  THEN << Entry(EffectBody(s, e, m, t), "effect") >>
  ELSE <<>>

\* showSafest without setChosenRoute(null).
ChosenAfterKept(reqs) == chosenRoute

\* showSafest before its await: setChosenRoute(null), setAlternatives([]),
\* setLogStatus('') in every call, so in an event that posted reqs.
ChosenAfter(reqs) == IF reqs = <<>> THEN chosenRoute ELSE NoRoute

\* showSafest without setAlternatives([]).
AlternativesAfterKept(reqs) == alternatives

AlternativesAfter(reqs) == IF reqs = <<>> THEN alternatives ELSE <<>>

LogStatusAfter(reqs) == IF reqs = <<>> THEN logStatus ELSE ""

\* The event handled last: the handler, whether a dependency of the effect
\* changed in its render, the options it passed to showSafest, for the
\* answer to a plan request whether another response had been applied
\* since that request was posted, and for a map click the point clicked.
Event(kind, changed, opts) ==
  [kind |-> kind, changed |-> changed, opts |-> opts, answered |-> FALSE,
   at |-> NoPoint]

Answer(kind, answered) ==
  [kind |-> kind, changed |-> FALSE, opts |-> NoOpts, answered |-> answered,
   at |-> NoPoint]

\* The bodies in flight once reqs are posted, in issue order.
AskedAfter(reqs) ==
  IF traced THEN asked \o [ k \in 1..Len(reqs) |-> reqs[k].body ] ELSE asked

\* The bodies in flight once the i-th request has been answered.
AskedWithout(i) ==
  IF traced
  THEN [ j \in 1..(Len(asked) - 1) |->
           IF j < i THEN asked[j] ELSE asked[j + 1] ]
  ELSE asked

\* The body answered by the response applied last, once the response to the
\* i-th request in flight has been applied.
AppliedAfter(i) == IF traced THEN << asked[i] >> ELSE appliedFor

\* State left by an event that committed the inputs s, e, m, t (changed says
\* whether a dependency of the effect changed) after posting the requests
\* explicit; the effect's request, when it fires, follows them.
CommitAt(kind, opts, at, s, e, m, t, changed, explicit) ==
  LET reqs == explicit \o AutoRecompute(changed, s, e, m, t) IN
  /\ Len(inflight) + Len(reqs) <= MaxInflight
  /\ start' = s /\ end' = e /\ mode' = m /\ timeOfDay' = t
  /\ posted' = reqs
  /\ inflight' = inflight \o [ k \in 1..Len(reqs) |-> Pending(reqs[k]) ]
  /\ chosenRoute' = ChosenAfter(reqs)
  /\ alternatives' = AlternativesAfter(reqs)
  /\ logStatus' = LogStatusAfter(reqs)
  /\ ev' = [Event(kind, changed, opts) EXCEPT !.at = at]
  /\ asked' = AskedAfter(reqs)
  /\ UNCHANGED << autoRefresh, result, trips, bookmarks, lastResponse,
                  tripState, storeState, traced, appliedFor >>

Commit(kind, opts, s, e, m, t, changed, explicit) ==
  CommitAt(kind, opts, NoPoint, s, e, m, t, changed, explicit)

\* ------------------------------------------------------------------ Init
\* No history of the plan requests is kept.
Untraced == traced = FALSE /\ asked = <<>> /\ appliedFor = <<>>

\* The Planner once its two mount effects have completed: the persisted
\* bookmarks are loaded and the first trip load for user_a has resolved.
Mounted ==
  /\ mode = "balanced"
  /\ timeOfDay = "day"
  /\ autoRefresh = TRUE
  /\ result = NoResult
  /\ start = DefaultStart
  /\ end = DefaultEnd
  /\ selecting = "none"
  /\ chosenRoute = NoRoute
  /\ alternatives = <<>>
  /\ logStatus = ""
  /\ trips = ServerTrips
  /\ bookmarks = StoredBookmarks
  /\ ev = Event("mount", FALSE, NoOpts)
  /\ posted = <<>>
  /\ inflight = <<>>
  /\ lastResponse = <<>>
  /\ userId = "user_a"
  /\ summary = NoSummary
  /\ loadingTrips = FALSE
  /\ loads = <<>>
  /\ creates = <<>>
  /\ deletes = <<>>
  /\ tripFilter = "all"
  /\ bookmarkName = DefaultName
  /\ storage = Stored(StoredBookmarks)
  /\ storageOk = TRUE
  /\ now = 1

\* The mounted Planner, keeping no history of its plan requests.
Init == Mounted /\ Untraced

\* The mounted Planner, with the history of its plan requests kept.
Traced == traced = TRUE /\ asked = <<>> /\ appliedFor = <<>>

InitTraced == Mounted /\ Traced

\* --------------------------------------------------------------- actions
\* A mode button: setMode(m).
SetMode(m) ==
  /\ Commit("SetMode", NoOpts, start, end, m, timeOfDay, m # mode, <<>>)
  /\ UNCHANGED selecting

\* A time-of-day button: setTimeOfDay(t).
SetTimeOfDay(t) ==
  /\ Commit("SetTimeOfDay", NoOpts, start, end, mode, t, t # timeOfDay, <<>>)
  /\ UNCHANGED selecting

\* Toggle "Auto recompute": setAutoRefresh(!checked).  autoRefresh is not a
\* dependency of the effect, so nothing else happens.
ToggleAutoRefresh ==
  /\ autoRefresh' = ~autoRefresh
  /\ ev' = Event("ToggleAutoRefresh", FALSE, NoOpts)
  /\ posted' = <<>>
  /\ UNCHANGED << mode, timeOfDay, result, start, end, selecting,
                  chosenRoute, alternatives, logStatus, trips, bookmarks,
                  inflight, lastResponse, tripState, storeState,
                  planHistory >>

\* "Pick start" / "Pick end": setSelecting(target).
SetSelecting(target) ==
  /\ selecting' = target
  /\ ev' = Event("SetSelecting", FALSE, NoOpts)
  /\ posted' = <<>>
  /\ UNCHANGED << mode, timeOfDay, autoRefresh, result, start, end,
                  chosenRoute, alternatives, logStatus, trips, bookmarks,
                  inflight, lastResponse, tripState, storeState,
                  planHistory >>

\* A click on the map at p.  The point object is always a new one, so the
\* effect's dependencies change whenever a point is set.
\* A click that sets start whenever end is not the armed target.
StartAfterClickUnarmed(p) == IF selecting # "end" THEN p ELSE start

\* if (selecting === 'start') setStart({ lat, lon: lng })
StartAfterClick(p) == IF selecting = "start" THEN p ELSE start

\* A click that sets end whenever a target is armed.
EndAfterClickArmed(p) == IF selecting # "none" THEN p ELSE end

\* else if (selecting === 'end') setEnd({ lat, lon: lng })
EndAfterClick(p) == IF selecting = "end" THEN p ELSE end

\* A click that leaves the end target armed.
SelectingAfterClickStuck == IF selecting = "start" THEN "end" ELSE selecting

\* setSelecting('end') after start, setSelecting(null) after end.
SelectingAfterClick == IF selecting = "start" THEN "end" ELSE "none"

MapClick(p) ==
  /\ CommitAt("MapClick", NoOpts, p, StartAfterClick(p), EndAfterClick(p),
              mode, timeOfDay, selecting # "none", <<>>)
  /\ selecting' = SelectingAfterClick

\* A numeric edit that disarms the pick target.
SelectingAfterEditCleared == "none"

\* The numeric inputs call setStart or setEnd only.
SelectingAfterEdit == selecting

\* The four numeric inputs: setStart({...start, lat: v}) and so on.  The
\* point object is a new one even when v is the value already held.
EditStartLat(v) ==
  /\ CommitAt("EditStart", NoOpts, [start EXCEPT !.lat = v],
              [start EXCEPT !.lat = v], end, mode, timeOfDay, TRUE, <<>>)
  /\ selecting' = SelectingAfterEdit

EditStartLon(v) ==
  /\ CommitAt("EditStart", NoOpts, [start EXCEPT !.lon = v],
              [start EXCEPT !.lon = v], end, mode, timeOfDay, TRUE, <<>>)
  /\ selecting' = SelectingAfterEdit

EditEndLat(v) ==
  /\ CommitAt("EditEnd", NoOpts, [end EXCEPT !.lat = v],
              start, [end EXCEPT !.lat = v], mode, timeOfDay, TRUE, <<>>)
  /\ selecting' = SelectingAfterEdit

EditEndLon(v) ==
  /\ CommitAt("EditEnd", NoOpts, [end EXCEPT !.lon = v],
              start, [end EXCEPT !.lon = v], mode, timeOfDay, TRUE, <<>>)
  /\ selecting' = SelectingAfterEdit

\* "Show Safest Route" and "Recompute": showSafest().
ShowSafest ==
  /\ Commit("ShowSafest", NoOpts, start, end, mode, timeOfDay, FALSE,
            << Entry(PlanBody(NoOpts), "button") >>)
  /\ UNCHANGED selecting

\* A quick-compare button: showSafest({ mode: m }).  The buttons are rendered
\* only while result is truthy.
QuickCompare(m) ==
  LET opts == [NoOpts EXCEPT !.mode = m] IN
  /\ result # NoResult
  /\ Commit("QuickCompare", opts, start, end, mode, timeOfDay, FALSE,
            << Entry(PlanBody(opts), "quick") >>)
  /\ UNCHANGED selecting

\* A button that unbinds the route when it is already the chosen one.
SelectedToggle(i) ==
  IF alternatives[i] = chosenRoute THEN NoRoute ELSE alternatives[i]

\* The route an alternative's button binds: setChosenRoute(alt).
Selected(i) == alternatives[i]

\* An alternative's button.  The list is rendered only while result is truthy
\* and alternatives is not empty; chosenRoute is not a dependency of the
\* effect.
SelectAlternative(i) ==
  /\ result # NoResult
  /\ i \in 1..Len(alternatives)
  /\ chosenRoute' = Selected(i)
  /\ ev' = Event("SelectAlternative", FALSE, NoOpts)
  /\ posted' = <<>>
  /\ UNCHANGED << mode, timeOfDay, autoRefresh, result, start, end, selecting,
                  alternatives, logStatus, trips, bookmarks, inflight,
                  lastResponse, tripState, storeState, planHistory >>

\* A use that takes over the start only.
EndAfterUseKept(b) == end

\* setEnd(b.end)
EndAfterUse(b) == b.end

\* "Use" on a bookmark: setStart(b.start); setEnd(b.end).  The bookmark's
\* point objects are stored ones: when their values equal the current points
\* they may or may not be the very objects held in start and end (sameObject).
UseBookmark(i, sameObject) ==
  LET b == bookmarks[i]
      changed == b.start # start \/ b.end # end \/ ~sameObject IN
  /\ i \in 1..Len(bookmarks)
  /\ Commit("UseBookmark", NoOpts, b.start, EndAfterUse(b), mode, timeOfDay,
            changed, <<>>)
  /\ UNCHANGED selecting

\* The mode setFromTrip(t) commits: if (t.mode) setMode(t.mode).
TripMode(t) == IF t.mode # NoMode THEN t.mode ELSE mode

\* "View" on a trip: setFromTrip(t).
ViewTrip(i, sameObject) ==
  LET t == trips[i]
      changed == \/ t.origin # start \/ t.destination # end
                 \/ TripMode(t) # mode \/ ~sameObject IN
  /\ i \in 1..Len(trips)
  /\ Commit("ViewTrip", NoOpts, t.origin, t.destination, TripMode(t),
            timeOfDay, changed, <<>>)
  /\ UNCHANGED selecting

\* "Re-run" on a trip: setFromTrip(t), then showSafest with the trip's
\* origin, destination and mode; the effect runs after the re-render.
ReRunTrip(i, sameObject) ==
  LET t == trips[i]
      opts == [start |-> t.origin, end |-> t.destination, mode |-> t.mode,
               time_of_day |-> NoMode]
      changed == \/ t.origin # start \/ t.destination # end
                 \/ TripMode(t) # mode \/ ~sameObject IN
  /\ i \in 1..Len(trips)
  /\ Commit("ReRunTrip", opts, t.origin, t.destination, TripMode(t),
            timeOfDay, changed, << Entry(PlanBody(opts), "rerun") >>)
  /\ UNCHANGED selecting

\* The requests left in flight once the i-th has been answered; applied says
\* whether its response was applied.
Remaining(i, applied) ==
  [ j \in 1..(Len(inflight) - 1) |->
      IF j < i
      THEN [answered |-> inflight[j].answered \/ applied,
            overtaken |-> inflight[j].overtaken \/ applied]
      ELSE [answered |-> inflight[j + 1].answered \/ applied,
            overtaken |-> inflight[j + 1].overtaken] ]

\* A continuation that drops the response of a request that is no longer
\* the latest one answered.
ChosenOnResolveLatest(i, data) ==
  IF inflight[i].overtaken THEN chosenRoute ELSE data.chosen

\* What the continuation of showSafest sets after the await for the i-th
\* request in flight: there is no check that the request is still the
\* latest one.
ChosenOnResolve(i, data) == data.chosen

\* An effect that also depends on the summary and runs when a response has
\* been applied.
PostedOnAnswerByEffect ==
  << Entry(EffectBody(start, end, mode, timeOfDay), "effect") >>

\* What the render after an answered request posts: the summary, the chosen
\* route and the alternatives are no dependencies of the effect, so it does
\* not run.
PostedOnAnswer == <<>>

\* A continuation that adds the response's candidates to the list held.
AlternativesOnResolveAppended(data) ==
  alternatives \o OrEmpty(data.alternatives)

\* The list the continuation of showSafest sets: data.alternatives || [].
AlternativesOnResolve(data) == OrEmpty(data.alternatives)

\* The continuation of showSafest after the await, when post resolved with
\* the body data for the i-th request in flight.
PlanResolve(i, data) ==
  /\ i \in 1..Len(inflight)
  /\ chosenRoute' = ChosenOnResolve(i, data)
  /\ alternatives' = AlternativesOnResolve(data)
  /\ result' = Summary(data)
  /\ inflight' = Remaining(i, TRUE)
  /\ lastResponse' = << [data |-> data,
                         overtaken |-> inflight[i].overtaken] >>
  /\ ev' = Answer("PlanResolve", inflight[i].answered)
  /\ posted' = PostedOnAnswer
  /\ asked' = AskedWithout(i)
  /\ appliedFor' = AppliedAfter(i)
  /\ UNCHANGED << mode, timeOfDay, autoRefresh, start, end, selecting,
                  logStatus, trips, bookmarks, tripState, storeState,
                  traced >>

\* A catch that puts the route of the last response back.
ChosenOnRejectRestored(i) ==
  IF lastResponse # <<>> THEN lastResponse[1].data.chosen ELSE chosenRoute

\* What a rejected post leaves in chosenRoute: the await throws, showSafest
\* has no catch, and the continuation never runs.
ChosenOnReject(i) == chosenRoute

\* post rejected for the i-th request in flight (or resolved with a body that
\* is not an object).
PlanReject(i) ==
  /\ i \in 1..Len(inflight)
  /\ chosenRoute' = ChosenOnReject(i)
  /\ inflight' = Remaining(i, FALSE)
  /\ ev' = Answer("PlanReject", inflight[i].answered)
  /\ posted' = PostedOnAnswer
  /\ asked' = AskedWithout(i)
  /\ UNCHANGED << mode, timeOfDay, autoRefresh, result, start, end, selecting,
                  alternatives, logStatus, trips, bookmarks, lastResponse,
                  tripState, storeState, traced, appliedFor >>

Next ==
  \/ \E m \in Modes : SetMode(m)
  \/ \E t \in TimeBuckets : SetTimeOfDay(t)
  \/ ToggleAutoRefresh
  \/ \E target \in {"start", "end"} : SetSelecting(target)
  \/ \E p \in ClickPoints : MapClick(p)
  \/ \E v \in LatInputs : EditStartLat(v)
  \/ \E v \in LonInputs : EditStartLon(v)
  \/ \E v \in LatInputs : EditEndLat(v)
  \/ \E v \in LonInputs : EditEndLon(v)
  \/ ShowSafest
  \/ \E m \in Modes : QuickCompare(m)
  \/ \E i \in 1..2 : SelectAlternative(i)
  \/ \E i \in 1..Len(bookmarks), o \in BOOLEAN : UseBookmark(i, o)
  \/ \E i \in 1..Len(trips), o \in BOOLEAN : ViewTrip(i, o)
  \/ \E i \in 1..Len(trips), o \in BOOLEAN : ReRunTrip(i, o)
  \/ \E i \in 1..MaxInflight, data \in Responses : PlanResolve(i, data)
  \/ \E i \in 1..MaxInflight : PlanReject(i)

Spec == Init /\ [][Next]_vars

\* ------------------------------------------------- trip history client
\* Everything the trip handlers leave alone apart from the plan state.
planInputs == << mode, timeOfDay, autoRefresh, start, end, selecting,
                 bookmarks, posted, inflight, lastResponse, storeState,
                 tripFilter, planHistory >>

\* A loadTrips that fetches for the empty user id as well.
LoadsAfterAnyUser(uid) == Append(loads, [uid |-> uid, phase |-> "list"])

\* loadTrips(uid) up to its first await: nothing for a falsy uid, otherwise
\* setLoadingTrips(true) and the trip-list get.
LoadsAfter(uid) ==
  IF uid = "" THEN loads ELSE Append(loads, [uid |-> uid, phase |-> "list"])

LoadingAfter(uid) == IF uid = "" THEN loadingTrips ELSE TRUE

\* A sequence without its i-th element.
Without(seq, i) ==
  [ j \in 1..(Len(seq) - 1) |-> IF j < i THEN seq[j] ELSE seq[j + 1] ]

\* Math.round(distance_m), in metres.
RoundM(distance_m) == (distance_m + 5) \div 10

\* x.toFixed(4) of a positive coordinate in 1e-5 degree, in 1e-4 degree.
ToFixed4(x) == (x + 5) \div 10

\* An id built without the distance.
RouteIdWithoutDistance(c) ==
  IF c = NoRoute \/ Len(RouteOf(c).geometry) = 0
  THEN <<>>
  ELSE LET g == RouteOf(c).geometry IN
       << ToFixed4(g[1][1]), ToFixed4(g[1][2]), ToFixed4(g[Len(g)][1]),
          ToFixed4(g[Len(g)][2]) >>

\* The routeId memo: '' without geometry, otherwise the first and the last
\* point with four decimals and the rounded distance.
RouteId(c) ==
  IF c = NoRoute \/ Len(RouteOf(c).geometry) = 0
  THEN <<>>
  ELSE LET g == RouteOf(c).geometry IN
       << ToFixed4(g[1][1]), ToFixed4(g[1][2]), ToFixed4(g[Len(g)][1]),
          ToFixed4(g[Len(g)][2]), RoundM(RouteOf(c).distance_m) >>

\* The body logTrip posts for the chosen route.
TripBody ==
  [user_uid |-> userId,
   origin |-> start,
   destination |-> end,
   route_id |-> IF RouteId(chosenRoute) # <<>> THEN RouteId(chosenRoute)
                ELSE << now >>,
   mode |-> mode,
   distance_km |-> ToFixed3Km(RouteOf(chosenRoute).distance_m),
   eta_minutes |-> RouteOf(chosenRoute).eta_minutes,
   safety_score |-> RouteOf(chosenRoute).average_safety_score]

\* A logTrip that posts even when no route is chosen.
CreatesAfterLogUnguarded ==
  Append(creates,
         [uid |-> userId, route |-> chosenRoute,
          body |-> IF chosenRoute = NoRoute THEN [user_uid |-> userId]
                   ELSE TripBody])

\* The create-trip posts in flight after logTrip: if (!chosenRoute) return.
\* Each keeps the user id and the chosen route logTrip read.
CreatesAfterLog ==
  IF chosenRoute = NoRoute THEN creates
  ELSE Append(creates,
              [uid |-> userId, route |-> chosenRoute, body |-> TripBody])

\* The user id input: setUserId(u); the effect on [userId] calls
\* loadTrips(u) when the value changed.
SetUserId(u) ==
  /\ Len(LoadsAfter(IF u # userId THEN u ELSE "")) <= MaxLoads
  /\ userId' = u
  /\ loads' = LoadsAfter(IF u # userId THEN u ELSE "")
  /\ loadingTrips' = LoadingAfter(IF u # userId THEN u ELSE "")
  /\ ev' = Event("SetUserId", FALSE, NoOpts)
  /\ UNCHANGED << planInputs, result, chosenRoute, alternatives, logStatus,
                  trips, summary, creates, deletes >>

\* "Refresh": loadTrips(userId).
RefreshTrips ==
  /\ Len(LoadsAfter(userId)) <= MaxLoads
  /\ loads' = LoadsAfter(userId)
  /\ loadingTrips' = LoadingAfter(userId)
  /\ ev' = Event("RefreshTrips", FALSE, NoOpts)
  /\ UNCHANGED << planInputs, result, chosenRoute, alternatives, logStatus,
                  trips, summary, userId, creates, deletes >>

\* The trip-list get of the i-th load resolved with body: setTrips, then
\* the summary get.
ListResolve(i, body) ==
  /\ i \in 1..Len(loads)
  /\ loads[i].phase = "list"
  /\ trips' = OrEmpty(body.trips)
  /\ loads' = [loads EXCEPT ![i].phase = "summary"]
  /\ ev' = Event("ListResolve", FALSE, NoOpts)
  /\ UNCHANGED << planInputs, result, chosenRoute, alternatives, logStatus,
                  summary, userId, loadingTrips, creates, deletes >>

\* The trip-list get of the i-th load rejected: the try block is left, the
\* finally clause runs setLoadingTrips(false).
ListReject(i) ==
  /\ i \in 1..Len(loads)
  /\ loads[i].phase = "list"
  /\ loads' = Without(loads, i)
  /\ loadingTrips' = FALSE
  /\ ev' = Event("ListReject", FALSE, NoOpts)
  /\ UNCHANGED << planInputs, result, chosenRoute, alternatives, logStatus,
                  trips, summary, userId, creates, deletes >>

\* The summary get of the i-th load resolved with body: setSummary, finally.
SummaryResolve(i, body) ==
  /\ i \in 1..Len(loads)
  /\ loads[i].phase = "summary"
  /\ summary' = body
  /\ loads' = Without(loads, i)
  /\ loadingTrips' = FALSE
  /\ ev' = Event("SummaryResolve", FALSE, NoOpts)
  /\ UNCHANGED << planInputs, result, chosenRoute, alternatives, logStatus,
                  trips, userId, creates, deletes >>

\* The summary get of the i-th load rejected: finally.
SummaryReject(i) ==
  /\ i \in 1..Len(loads)
  /\ loads[i].phase = "summary"
  /\ loads' = Without(loads, i)
  /\ loadingTrips' = FALSE
  /\ ev' = Event("SummaryReject", FALSE, NoOpts)
  /\ UNCHANGED << planInputs, result, chosenRoute, alternatives, logStatus,
                  trips, summary, userId, creates, deletes >>

\* "Save this trip": logTrip() up to its await.
LogTrip ==
  /\ Len(CreatesAfterLog) <= MaxCreates
  /\ creates' = CreatesAfterLog
  /\ logStatus' = IF chosenRoute = NoRoute THEN logStatus ELSE ""
  /\ ev' = Event("LogTrip", FALSE, NoOpts)
  /\ UNCHANGED << planInputs, result, chosenRoute, alternatives, trips,
                  summary, userId, loadingTrips, loads, deletes >>

\* The status logTrip sets when post resolved with res.
StatusOnCreate(res) == IF res.trip_id # NoId THEN Saved ELSE CouldNotSave

\* The create-trip post of the i-th logTrip resolved with res: with an
\* identifier, loadTrips for the user id logTrip was started with.
CreateResolve(i, res) ==
  LET uid == IF res.trip_id # NoId THEN creates[i].uid ELSE "" IN
  /\ i \in 1..Len(creates)
  /\ Len(LoadsAfter(uid)) <= MaxLoads
  /\ logStatus' = StatusOnCreate(res)
  /\ loads' = LoadsAfter(uid)
  /\ loadingTrips' = LoadingAfter(uid)
  /\ creates' = Without(creates, i)
  /\ ev' = Event(IF res.trip_id # NoId THEN "CreateSaved"
                 ELSE "CreateRefused", FALSE, NoOpts)
  /\ UNCHANGED << planInputs, result, chosenRoute, alternatives, trips,
                  summary, userId, deletes >>

\* The status a rejected create-trip post leaves: logTrip has no catch.
StatusOnCreateReject == logStatus

\* The create-trip post of the i-th logTrip rejected.
CreateReject(i) ==
  /\ i \in 1..Len(creates)
  /\ logStatus' = StatusOnCreateReject
  /\ creates' = Without(creates, i)
  /\ ev' = Event("CreateReject", FALSE, NoOpts)
  /\ UNCHANGED << planInputs, result, chosenRoute, alternatives, trips,
                  summary, userId, loadingTrips, loads, deletes >>

\* "Delete" on the i-th cached trip: deleteTrip(t) up to its await.
DeleteTrip(i) ==
  /\ i \in 1..Len(trips)
  /\ Len(deletes) < MaxDeletes
  /\ deletes' = IF trips[i]._id = NoId THEN deletes
                ELSE Append(deletes, [uid |-> userId, id |-> trips[i]._id])
  /\ ev' = Event("DeleteTrip", FALSE, NoOpts)
  /\ UNCHANGED << planInputs, result, chosenRoute, alternatives, logStatus,
                  trips, summary, userId, loadingTrips, loads, creates >>

\* The i-th delete call resolved: loadTrips for the user id deleteTrip was
\* started with.
DeleteResolve(i) ==
  /\ i \in 1..Len(deletes)
  /\ Len(LoadsAfter(deletes[i].uid)) <= MaxLoads
  /\ loads' = LoadsAfter(deletes[i].uid)
  /\ loadingTrips' = LoadingAfter(deletes[i].uid)
  /\ deletes' = Without(deletes, i)
  /\ ev' = Event("DeleteResolve", FALSE, NoOpts)
  /\ UNCHANGED << planInputs, result, chosenRoute, alternatives, logStatus,
                  trips, summary, userId, creates >>

\* The i-th delete call rejected: deleteTrip has no catch.
DeleteReject(i) ==
  /\ i \in 1..Len(deletes)
  /\ deletes' = Without(deletes, i)
  /\ ev' = Event("DeleteReject", FALSE, NoOpts)
  /\ UNCHANGED << planInputs, result, chosenRoute, alternatives, logStatus,
                  trips, summary, userId, loadingTrips, loads, creates >>

\* The Planner at mount: no trips cached yet, the effect on [userId] has
\* called loadTrips('user_a').
InitTrips ==
  /\ mode = "balanced"
  /\ timeOfDay = "day"
  /\ autoRefresh = TRUE
  /\ result = NoResult
  /\ start = DefaultStart
  /\ end = DefaultEnd
  /\ selecting = "none"
  /\ chosenRoute = NoRoute
  /\ alternatives = <<>>
  /\ logStatus = ""
  /\ trips = <<>>
  /\ bookmarks = StoredBookmarks
  /\ ev = Event("mount", FALSE, NoOpts)
  /\ posted = <<>>
  /\ inflight = <<>>
  /\ lastResponse = <<>>
  /\ userId = "user_a"
  /\ summary = NoSummary
  /\ loadingTrips = TRUE
  /\ loads = << [uid |-> "user_a", phase |-> "list"] >>
  /\ creates = <<>>
  /\ deletes = <<>>
  /\ tripFilter = "all"
  /\ bookmarkName = DefaultName
  /\ storage = Stored(StoredBookmarks)
  /\ storageOk = TRUE
  /\ now = 1
  /\ Untraced

\* The plan response the trip specification lets the service give.
TripPlanBodies ==
  { [mode |-> "balanced", chosen |-> 1, alternatives |-> << <<1, 2>> >>] }

NextTrips ==
  \/ (Len(inflight) < MaxTripPlans /\ ShowSafest)
  \/ \E i \in 1..MaxInflight, data \in TripPlanBodies : PlanResolve(i, data)
  \/ \E i \in 1..MaxInflight : PlanReject(i)
  \/ \E u \in UserIds : SetUserId(u)
  \/ RefreshTrips
  \/ \E i \in 1..MaxLoads, body \in ListBodies : ListResolve(i, body)
  \/ \E i \in 1..MaxLoads : ListReject(i)
  \/ \E i \in 1..MaxLoads, body \in SummaryBodies : SummaryResolve(i, body)
  \/ \E i \in 1..MaxLoads : SummaryReject(i)
  \/ LogTrip
  \/ \E i \in 1..MaxCreates, res \in CreateBodies : CreateResolve(i, res)
  \/ \E i \in 1..MaxCreates : CreateReject(i)
  \/ \E i \in 1..2 : DeleteTrip(i)
  \/ \E i \in 1..MaxDeletes : DeleteResolve(i)
  \/ \E i \in 1..MaxDeletes : DeleteReject(i)

SpecTrips == InitTrips /\ [][NextTrips]_vars

\* ---------------------------------------------------------------- claims
\* The request the effect posts for the inputs committed by a step.
EffectRequest ==
  [body |-> [start |-> start', end |-> end', mode |-> mode',
             time_of_day |-> timeOfDay'],
   by |-> "effect"]

\* C1: with the auto-refresh flag on and a plan completed once, every step
\* that changes mode, time_of_day, start or end posts a plan request from
\* the effect, carrying the committed inputs, with no plan intent.
C1_AutoRecomputeOnChange ==
  [][ (autoRefresh /\ result # NoResult /\ inputs' # inputs)
        => /\ posted' # <<>>
           /\ posted'[Len(posted')] = EffectRequest ]_vars

\* C1 witness: a time-of-day change was answered by the effect's request.
C1_Witness ==
  /\ ev.kind = "SetTimeOfDay" /\ ev.changed
  /\ autoRefresh /\ result # NoResult
  /\ posted = << [body |-> [start |-> start, end |-> end, mode |-> mode,
                            time_of_day |-> timeOfDay], by |-> "effect"] >>

\* C2: with the auto-refresh flag on and a plan completed once, an event
\* other than Re-run that changes the inputs posts exactly one request, and
\* it carries the new committed values, however many fields changed.
C2_ExactlyOneRequestPerChange ==
  [][ (/\ autoRefresh /\ result # NoResult /\ inputs' # inputs
       /\ ev'.kind # "ReRunTrip")
        => posted' = << EffectRequest >> ]_vars

\* C2 witness: View trip changed start and mode in one event (balanced to
\* night_safe) and exactly one request carries the new values.
C2_Witness ==
  /\ ev.kind = "ViewTrip" /\ ev.changed
  /\ autoRefresh /\ result # NoResult
  /\ Len(posted) = 1
  /\ posted[1].by = "effect"
  /\ posted[1].body.mode = "night_safe"
  /\ posted[1].body.start = trips[1].origin
  /\ posted[1].body.start # DefaultStart

\* C3: while the auto-refresh flag is off, or before any plan response has
\* been applied, no step posts a request from the effect; toggling the flag
\* posts nothing at all.
C3_NoImplicitPlanWhenOffOrIdle ==
  [][ /\ (~autoRefresh \/ result = NoResult \/ lastResponse = <<>>)
          => \A k \in 1..Len(posted') : posted'[k].by # "effect"
      /\ autoRefresh' # autoRefresh => posted' = <<>> ]_vars

\* C3 witness: the mode was changed with the flag off after a plan had
\* completed, and nothing was posted.
C3_Witness ==
  /\ ev.kind = "SetMode" /\ ev.changed
  /\ ~autoRefresh /\ result # NoResult
  /\ posted = <<>>

\* C4 (as stated): prior results survive a plan call: a step that posts a
\* plan request leaves the chosen route and the alternatives as they were.
C4_PriorResultsSurviveCall ==
  [][ posted' # <<>>
        => (chosenRoute' = chosenRoute /\ alternatives' = alternatives) ]_vars

\* C4 (amended): a step that posts a plan request sets the chosen route to
\* none and the alternatives to empty; any other step except the applying
\* of a response and the selecting of an alternative leaves both as they
\* are, and a rejected request leaves the summary as it is too.
C4_CallClearsThenFailureKeeps ==
  [][ /\ posted' # <<>> => (chosenRoute' = NoRoute /\ alternatives' = <<>>)
      /\ (posted' = <<>> /\ ev'.kind \notin {"PlanResolve", "SelectAlternative"})
           => (chosenRoute' = chosenRoute /\ alternatives' = alternatives)
      /\ ev'.kind = "PlanReject" => result' = result ]_vars

\* C4 witness: a plan with a route had completed, a new request was posted
\* and rejected, and no route is held.
C4_Witness ==
  /\ ev.kind = "PlanReject" /\ ~ev.answered
  /\ lastResponse # <<>> /\ lastResponse[1].data.chosen # NoRoute
  /\ chosenRoute = NoRoute /\ alternatives = <<>>

\* A plan request has just failed: post rejected, or the body has no chosen
\* candidate.
PlanFailed ==
  \/ ev.kind = "PlanReject"
  \/ ev.kind = "PlanResolve" /\ lastResponse[1].data = Malformed

\* C5 (as stated): after a failed plan request no route is chosen and
\* nothing was posted.
C5_FailureLeavesNoRoute ==
  PlanFailed => (chosenRoute = NoRoute /\ posted = <<>>)

\* C5 (amended): after a failed plan request nothing was posted, and a route
\* is chosen only if post rejected after a response to another plan request
\* had been applied since the failed one was posted.
C5_FailureNoRetryNoRouteUnlessOverlap ==
  PlanFailed => /\ posted = <<>>
                /\ chosenRoute # NoRoute
                     => (ev.kind = "PlanReject" /\ ev.answered)

\* C5 witness: with the auto-refresh flag on and a plan completed once, the
\* only request in flight was rejected: no route, nothing posted.
C5_Witness ==
  /\ ev.kind = "PlanReject" /\ ~ev.answered
  /\ autoRefresh /\ result # NoResult
  /\ inflight = <<>> /\ posted = <<>> /\ chosenRoute = NoRoute

\* C6: after a response with a chosen candidate is applied, chosen is that
\* candidate, alternatives is the response's list (empty when it has none),
\* and the summary has the response's mode, the candidate's eta and safety
\* score, and its distance_m / 1000 rounded to the nearest thousandth.
C6_SuccessReplacesResults ==
  (ev.kind = "PlanResolve" /\ lastResponse[1].data.chosen # NoRoute)
    => LET d == lastResponse[1].data
           r == RouteOf(d.chosen) IN
       /\ chosenRoute = d.chosen
       /\ d.alternatives = <<>> => alternatives = <<>>
       /\ d.alternatives # <<>> => alternatives = d.alternatives[1]
       /\ result.mode = d.mode
       /\ result.eta_minutes = r.eta_minutes
       /\ result.average_safety_score = r.average_safety_score
       /\ 10 * result.distance_km - 5 <= r.distance_m
       /\ r.distance_m < 10 * result.distance_km + 5

\* C6 witness: a response with candidate 3 (2304.7 m) and no alternatives
\* field was applied; the summary shows 2.305 km.
C6_Witness ==
  /\ ev.kind = "PlanResolve"
  /\ lastResponse[1].data.alternatives = <<>>
  /\ chosenRoute = 3 /\ alternatives = <<>>
  /\ result.distance_km = 2305

\* C7: no step but the answer to a request takes a request out of flight,
\* and an answer takes out one; every response is applied when it resolves,
\* also the response to a request that was posted before one already
\* answered: chosen, alternatives and summary are then that response's.
C7_LastResolvedWins ==
  [][ /\ ev'.kind \notin {"PlanResolve", "PlanReject"}
           => SubSeq(inflight', 1, Len(inflight)) = inflight
      /\ ev'.kind \in {"PlanResolve", "PlanReject"}
           => Len(inflight') = Len(inflight) - 1
      /\ (ev'.kind = "PlanResolve" /\ lastResponse'[1].overtaken)
           => LET d == lastResponse'[1].data IN
              /\ chosenRoute' = d.chosen
              /\ alternatives' = IF d.alternatives = <<>> THEN <<>>
                                 ELSE d.alternatives[1]
              /\ result'.mode = d.mode ]_vars

\* C7 witness: both of two overlapping requests are answered, and the route
\* held is the one returned last, for the request posted first.
C7_Witness ==
  /\ ev.kind = "PlanResolve" /\ lastResponse[1].overtaken
  /\ inflight = <<>>
  /\ chosenRoute # NoRoute
  /\ chosenRoute = lastResponse[1].data.chosen

\* C8 (as stated): whenever a candidate is chosen, the summary's eta, safety
\* score and distance are those of that candidate.
C8_SummaryIsProjectionOfChosen ==
  chosenRoute # NoRoute
    => /\ result # NoResult
       /\ result.eta_minutes = RouteOf(chosenRoute).eta_minutes
       /\ result.average_safety_score
            = RouteOf(chosenRoute).average_safety_score
       /\ result.distance_km = ToFixed3Km(RouteOf(chosenRoute).distance_m)

\* C9: selecting an alternative posts no request, leaves the requests in
\* flight, the alternatives, the inputs and the pick target as they are, and
\* binds chosen to a member of the alternatives held.
C9_SelectOnlyRebindsChosen ==
  [][ ev'.kind = "SelectAlternative"
        => /\ posted' = <<>>
           /\ inflight' = inflight
           /\ alternatives' = alternatives
           /\ inputs' = inputs
           /\ selecting' = selecting
           /\ autoRefresh' = autoRefresh
           /\ \E k \in 1..Len(alternatives) : chosenRoute' = alternatives[k]
     ]_vars

\* C9 witness: with the auto-refresh flag on and a route computed, the
\* second alternative was selected in place of the response's chosen one.
C9_Witness ==
  /\ ev.kind = "SelectAlternative"
  /\ autoRefresh /\ result # NoResult
  /\ lastResponse[1].data.chosen = 1
  /\ chosenRoute = 2
  /\ posted = <<>>

\* C10: each field of a request posted by a plan call is the call's override
\* when it gives one and the session's value otherwise; a plain or
\* quick-compare call, and the answer to any request, leave the session's
\* mode, time_of_day, start and end as they are.
C10_OverridesForOneCallOnly ==
  [][ /\ \A k \in 1..Len(posted') :
           posted'[k].by # "effect"
             => LET o == ev'.opts
                    b == posted'[k].body IN
                /\ b.start = (IF o.start # NoPoint THEN o.start ELSE start)
                /\ b.end = (IF o.end # NoPoint THEN o.end ELSE end)
                /\ b.mode = (IF o.mode # NoMode THEN o.mode ELSE mode)
                /\ b.time_of_day = (IF o.time_of_day # NoMode
                                    THEN o.time_of_day ELSE timeOfDay)
      /\ ev'.kind \in {"ShowSafest", "QuickCompare", "PlanResolve",
                       "PlanReject"}
           => inputs' = inputs ]_vars

\* C10 witness: a quick compare posted night_safe while the session's mode
\* is still balanced.
C10_Witness ==
  /\ ev.kind = "QuickCompare"
  /\ Len(posted) = 1
  /\ posted[1].by = "quick"
  /\ posted[1].body.mode = "night_safe"
  /\ mode = "balanced"

\* ------------------------------------------------- start and end inputs
\* The pick buttons, the map, the numeric inputs and the plan button, with
\* two map points and with typed latitudes that are out of range or no number.
NextInputs ==
  \/ \E target \in {"start", "end"} : SetSelecting(target)
  \/ \E p \in MapPoints : MapClick(p)
  \/ \E v \in TypedLats : EditStartLat(v)
  \/ \E v \in LonInputs : EditStartLon(v)
  \/ \E v \in TypedLats : EditEndLat(v)
  \/ \E v \in LonInputs : EditEndLon(v)
  \/ ShowSafest
  \/ \E i \in 1..MaxInflight, data \in TripPlanBodies : PlanResolve(i, data)
  \/ \E i \in 1..MaxInflight : PlanReject(i)

SpecInputs == Init /\ [][NextInputs]_vars

\* ------------------------------------------------------- the trip filter
\* The options of the filter select.
TripFilters == {"all", "fastest", "safest", "balanced", "night_safe"}

\* A trip list with two trips of one mode around one of another.
FilterListBodies ==
  { [trips |-> << ServerTrips
                  \o << [_id |-> "t3", origin |-> DefaultStart,
                         destination |-> DefaultEnd,
                         mode |-> "night_safe"] >> >>],
    [trips |-> << ServerTrips >>],
    [trips |-> <<>>] }

\* A view that ignores the filter.
VisibleTripsUnfiltered == trips

\* The visibleTrips memo.
VisibleTrips ==
  IF tripFilter = "all" THEN trips
  ELSE SelectSeq(trips, LAMBDA t : t.mode = tripFilter)

\* The filter select: setTripFilter(f).  tripFilter is a dependency of the
\* visibleTrips memo only.
SetTripFilter(f) ==
  /\ tripFilter' = f
  /\ ev' = Event("SetTripFilter", FALSE, NoOpts)
  /\ UNCHANGED << mode, timeOfDay, autoRefresh, result, start, end,
                  selecting, chosenRoute, alternatives, logStatus, trips,
                  bookmarks, posted, inflight, lastResponse, userId,
                  summary, loadingTrips, loads, creates, deletes,
                  storeState, planHistory >>

\* Filtering and loading the trip list.
NextFilter ==
  \/ \E f \in TripFilters : SetTripFilter(f)
  \/ RefreshTrips
  \/ \E i \in 1..MaxLoads, body \in FilterListBodies : ListResolve(i, body)
  \/ \E i \in 1..MaxLoads : ListReject(i)
  \/ \E i \in 1..MaxLoads, body \in SummaryBodies : SummaryResolve(i, body)
  \/ \E i \in 1..MaxLoads : SummaryReject(i)

SpecFilter == InitTrips /\ [][NextFilter]_vars

\* ------------------------------------------------------- logging a route
\* Plan responses whose alternatives differ from the chosen route in the
\* fifth decimal of a coordinate, in having no geometry, or by one metre.
LogPlanBodies ==
  { [mode |-> "balanced", chosen |-> 1,
     alternatives |-> << <<2, 4, 5, 6>> >>],
    [mode |-> "night_safe", chosen |-> 3, alternatives |-> << <<2>> >>] }

\* Planning, choosing an alternative and saving the trip.
NextLog ==
  \/ (Len(inflight) < MaxTripPlans /\ ShowSafest)
  \/ \E i \in 1..MaxInflight, data \in LogPlanBodies : PlanResolve(i, data)
  \/ \E i \in 1..4 : SelectAlternative(i)
  \/ LogTrip
  \/ \E i \in 1..MaxCreates, res \in CreateBodies : CreateResolve(i, res)
  \/ \E i \in 1..MaxCreates : CreateReject(i)
  \/ \E i \in 1..MaxLoads, body \in ListBodies : ListResolve(i, body)
  \/ \E i \in 1..MaxLoads, body \in SummaryBodies : SummaryResolve(i, body)

SpecLog == Init /\ [][NextLog]_vars

\* ------------------------------------------------------ bookmark store
\* The cap of slice(0, 20).
MaxBookmarks == 20

\* A full bookmark array written by earlier sessions, most recent first.
FullBookmarks ==
  [ i \in 1..MaxBookmarks |->
      [id |-> 1 - i, name |-> << "h" >>, start |-> DefaultStart,
       end |-> DefaultEnd] ]

\* Entries an earlier session, or nothing, left in localStorage.
StoredEntries ==
  { Absent, Garbage, Stored(<<>>), Stored(StoredBookmarks),
    Stored(FullBookmarks) }

\* Texts typed into the bookmark name input.
NameInputs == { << " " >>, << " ", "h", " " >> }

RECURSIVE TrimLeft(_)
TrimLeft(n) == IF n # <<>> /\ Head(n) = " " THEN TrimLeft(Tail(n)) ELSE n

RECURSIVE TrimRight(_)
TrimRight(n) ==
  IF n # <<>> /\ n[Len(n)] = " " THEN TrimRight(SubSeq(n, 1, Len(n) - 1))
  ELSE n

\* A trim that leaves the text as it is.
TrimNothing(n) == n

\* String.prototype.trim over these characters.
Trim(n) == TrimRight(TrimLeft(n))

\* An array that is never cut.
SliceOff(items) == items

\* items.slice(0, 20)
Slice(items) ==
  SubSeq(items, 1, IF Len(items) < MaxBookmarks THEN Len(items)
                   ELSE MaxBookmarks)

\* The bookmark load effect: getItem, then setBookmarks(JSON.parse(raw))
\* when there is a text; a throwing getItem or parse is caught and leaves
\* the initial empty array.
LoadBookmarks(entry, ok) ==
  IF ok /\ entry.kind = "json" THEN entry.items ELSE <<>>

\* JSON.stringify of a number: a number that is not finite is written as
\* null; every other number is written so that JSON.parse reads it back.
JsonNumber(v) == IF v = NaN THEN Null ELSE v

JsonPoint(p) == [lat |-> JsonNumber(p.lat), lon |-> JsonNumber(p.lon)]

\* What JSON.parse reads from JSON.stringify(items).
Stringify(items) ==
  [ i \in 1..Len(items) |->
      [id |-> items[i].id, name |-> items[i].name,
       start |-> JsonPoint(items[i].start),
       end |-> JsonPoint(items[i].end)] ]

\* A save that forgets the array in memory when the write throws.
SavedInMemoryIfWritten(next) == IF storageOk THEN next ELSE bookmarks

\* setBookmarks(next) comes before the write and outside its try block.
SavedInMemory(next) == next

\* saveBookmarks(next): setBookmarks(next), then setItem inside try/catch.
SaveBookmarks(next) ==
  /\ bookmarks' = SavedInMemory(next)
  /\ storage' = IF storageOk THEN Stored(Stringify(next)) ELSE storage

\* A new bookmark put behind the others.
PutLast(b, items) == items \o << b >>

\* [b, ...items]
Prepend(b, items) == << b >> \o items

\* A filter that drops every bookmark down to the one with this id.
RemoveUpTo(items, id) == SelectSeq(items, LAMBDA b : b.id < id)

\* items.filter(b => b.id !== id)
Remove(items, id) == SelectSeq(items, LAMBDA b : b.id # id)

\* Everything the bookmark handlers leave alone.
nonBookmark == << mode, timeOfDay, autoRefresh, result, start, end,
                 selecting, chosenRoute, alternatives, logStatus, trips,
                 inflight, lastResponse, tripState, storageOk,
                 planHistory >>

\* The bookmark name input.
SetBookmarkName(n) ==
  /\ bookmarkName' = n
  /\ ev' = Event("SetBookmarkName", FALSE, NoOpts)
  /\ posted' = <<>>
  /\ UNCHANGED << nonBookmark, bookmarks, storage, now >>

\* "Add": addBookmark(), with Date.now() read for the id; elapsed is the
\* number of milliseconds by which the clock has moved on when the next
\* handler reads it.
AddBookmark(elapsed) ==
  LET name == Trim(bookmarkName) IN
  /\ now < MaxNow
  /\ IF name = <<>>
     THEN UNCHANGED << bookmarks, storage, bookmarkName, now >>
     ELSE /\ SaveBookmarks(Slice(Prepend([id |-> now, name |-> name,
                                          start |-> start, end |-> end],
                                         bookmarks)))
          /\ bookmarkName' = <<>>
          /\ now' = now + elapsed
  /\ ev' = Event("AddBookmark", FALSE, NoOpts)
  /\ posted' = <<>>
  /\ UNCHANGED nonBookmark

\* "Delete" on the i-th bookmark: deleteBookmark(b.id).
DeleteBookmark(i) ==
  /\ i \in 1..Len(bookmarks)
  /\ SaveBookmarks(Remove(bookmarks, bookmarks[i].id))
  /\ ev' = Event("DeleteBookmark", FALSE, NoOpts)
  /\ posted' = <<>>
  /\ UNCHANGED << nonBookmark, bookmarkName, now >>

\* The Planner after mount over any stored entry: the load effect has run,
\* with getItem returning the entry or throwing.  Storage that can be
\* written can be read; storage that is full can be read but not written.
InitStore(entries) ==
  /\ mode = "balanced"
  /\ timeOfDay = "day"
  /\ autoRefresh = TRUE
  /\ result = NoResult
  /\ start = DefaultStart
  /\ end = DefaultEnd
  /\ selecting = "none"
  /\ chosenRoute = NoRoute
  /\ alternatives = <<>>
  /\ logStatus = ""
  /\ trips = <<>>
  /\ ev = Event("mount", FALSE, NoOpts)
  /\ posted = <<>>
  /\ inflight = <<>>
  /\ lastResponse = <<>>
  /\ userId = "user_a"
  /\ summary = NoSummary
  /\ loadingTrips = FALSE
  /\ loads = <<>>
  /\ creates = <<>>
  /\ deletes = <<>>
  /\ tripFilter = "all"
  /\ bookmarkName = DefaultName
  /\ storage \in entries
  /\ storageOk \in BOOLEAN
  /\ \E readable \in BOOLEAN :
        /\ storageOk => readable
        /\ bookmarks = LoadBookmarks(storage, readable)
  /\ now = 1
  /\ Untraced

InitBookmarks == InitStore(StoredEntries)

\* The bookmark buttons and the start latitude input, emptied; Delete is
\* pressed on the second or on the oldest bookmark.  Two presses of Add are
\* more than a millisecond apart.
NextBookmarks ==
  \/ \E n \in NameInputs : SetBookmarkName(n)
  \/ \E elapsed \in {1} : AddBookmark(elapsed)
  \/ \E i \in {2, Len(bookmarks)} : DeleteBookmark(i)
  \/ \E v \in {NaN} : EditStartLat(v)

SpecBookmarks == InitBookmarks /\ [][NextBookmarks]_vars

\* A JSON value that is not an array, such as {"0": 0}.
NotArray == [ i \in {0} |-> 0 ]

IsArray(v) == 0 \notin DOMAIN v

\* Entries found at startup: those an earlier session wrote, and a JSON
\* text that something else left under the key.
StartupEntries == StoredEntries \cup { Stored(NotArray) }

InitStartup == InitStore(StartupEntries)

\* The bookmark list is rendered with bookmarks.map(...): with a value that
\* has no map the render throws and the Planner is unmounted, so no handler
\* runs any more.
Rendered == IsArray(bookmarks)

NextStartup == Rendered /\ NextBookmarks

SpecStartup == InitStartup /\ [][NextStartup]_vars

\* ------------------------------------------------ claims: trip history
\* C11: logTrip without a chosen route -- before any plan, while a plan is
\* in flight, or after a failed plan -- sends no create-trip request and no
\* trip-list request, and leaves the trips cache as it is.
C11_NoRouteNoSave ==
  [][ (ev'.kind = "LogTrip" /\ chosenRoute = NoRoute)
        => /\ creates' = creates
           /\ loads' = loads
           /\ deletes' = deletes
           /\ trips' = trips
           /\ posted' = posted ]_vars

\* C11 witness: Save this trip was handled while a plan request was in flight
\* and no route was chosen; nothing is awaiting a create-trip answer.
C11_Witness ==
  /\ ev.kind = "LogTrip"
  /\ chosenRoute = NoRoute
  /\ Len(inflight) = 1
  /\ creates = <<>>

\* The loads in flight after one more trip-list get for uid.
WithLoadFor(uid) == Append(loads, [uid |-> uid, phase |-> "list"])

\* C12 (as stated): when a create-trip call returns an identifier, and when
\* a delete-trip call completes, a load of the trip list for that user is
\* issued; a create answered without identifier issues none.
C12_RefetchAfterCreateAndDelete ==
  [][ /\ ev'.kind = "CreateSaved"
           => \E i \in 1..Len(creates) :
                 /\ creates' = Without(creates, i)
                 /\ loads' = WithLoadFor(creates[i].uid)
      /\ ev'.kind = "DeleteResolve"
           => \E i \in 1..Len(deletes) :
                 /\ deletes' = Without(deletes, i)
                 /\ loads' = WithLoadFor(deletes[i].uid)
      /\ ev'.kind = "CreateRefused" => loads' = loads ]_vars

\* C12 (amended): a create-trip call answered with an identifier, and a
\* delete-trip call that completes, issue a load of the trip list for the
\* user id the handler was started with when that id is not empty, and no
\* load when it is empty; a create answered without identifier issues none.
C12_RefetchForNonEmptyUser ==
  [][ /\ ev'.kind = "CreateSaved"
           => \E i \in 1..Len(creates) :
                 /\ creates' = Without(creates, i)
                 /\ loads' = IF creates[i].uid # ""
                             THEN WithLoadFor(creates[i].uid) ELSE loads
      /\ ev'.kind = "DeleteResolve"
           => \E i \in 1..Len(deletes) :
                 /\ deletes' = Without(deletes, i)
                 /\ loads' = IF deletes[i].uid # ""
                             THEN WithLoadFor(deletes[i].uid) ELSE loads
      /\ ev'.kind = "CreateRefused" => loads' = loads ]_vars

\* C12 witness: a trip saved for user_a was answered with an identifier
\* after the user id input was cleared, and the list of user_a is being
\* fetched.
C12_Witness ==
  /\ ev.kind = "CreateSaved"
  /\ userId = ""
  /\ Len(loads) > 0
  /\ loads[Len(loads)] = [uid |-> "user_a", phase |-> "list"]

\* C13: every failed attempt to save a trip -- answered without identifier,
\* or failed in transport -- sets the log status to the could-not-save
\* message, is not retried, and leaves the chosen route and the inputs as
\* they are.
C13_FailedSaveReported ==
  [][ ev'.kind \in {"CreateRefused", "CreateReject"}
        => /\ logStatus' = CouldNotSave
           /\ Len(creates') = Len(creates) - 1
           /\ chosenRoute' = chosenRoute
           /\ inputs' = inputs ]_vars

\* C14: the trip-list get and the summary get of one load are independent:
\* when the trip-list get fails the summary get of that load is still
\* issued, and when the summary get fails the trips cache keeps the list
\* that load fetched.
C14_ListAndSummaryIndependent ==
  [][ /\ ev'.kind = "ListReject"
           => \E i \in 1..Len(loads) :
                 /\ loads[i].phase = "list"
                 /\ loads' = [loads EXCEPT ![i].phase = "summary"]
      /\ ev'.kind = "SummaryReject" => trips' = trips ]_vars

\* ------------------------------------------- claims: start and end inputs
\* C15: from picking = start, a map click at p1 followed immediately by a
\* map click at p2 leaves picking = none, start = p1 and end = p2, for every
\* pair of points: the first click sets start and arms end, and the click
\* that follows it sets end, keeps the start of the first and disarms.
C15_TwoClickSelection ==
  [][ ev'.kind = "MapClick"
        => /\ selecting = "start"
                => (selecting' = "end" /\ start' = ev'.at)
           /\ (ev.kind = "MapClick" /\ ev.changed /\ selecting = "end")
                => /\ selecting' = "none"
                   /\ start' = ev.at
                   /\ end' = ev'.at ]_vars

\* C15 witness: two clicks at different map points have set start and end
\* and nothing is armed.
C15_Witness ==
  /\ ev.kind = "MapClick"
  /\ ev.changed
  /\ selecting = "none"
  /\ start = Point(286200, 772200)
  /\ end = Point(286129, 772167)
  /\ ev.at = end

\* C16: one consumed map click changes one point only: with picking = start
\* it sets start, keeps end and arms end; with picking = end it sets end,
\* keeps start and disarms.  No click changes both start and end.
C16_ClickSetsOnePoint ==
  [][ ev'.kind = "MapClick"
        => /\ selecting = "start"
                => (start' = ev'.at /\ end' = end /\ selecting' = "end")
           /\ selecting = "end"
                => (end' = ev'.at /\ start' = start /\ selecting' = "none")
           /\ ~(start' # start /\ end' # end) ]_vars

\* C16 witness: a click with picking = start has moved start to a map point
\* and end still is the initial end.
C16_Witness ==
  /\ ev.kind = "MapClick"
  /\ ev.changed
  /\ selecting = "end"
  /\ start = ev.at
  /\ start # DefaultStart
  /\ end = DefaultEnd

\* C17: a map click while nothing is armed changes neither start, end,
\* picking, the chosen route, the alternatives nor the summary, and issues
\* no plan request.
C17_UnarmedClickIsNoOp ==
  [][ (ev'.kind = "MapClick" /\ selecting = "none")
        => /\ start' = start
           /\ end' = end
           /\ selecting' = selecting
           /\ chosenRoute' = chosenRoute
           /\ alternatives' = alternatives
           /\ result' = result
           /\ posted' = <<>>
           /\ inflight' = inflight ]_vars

\* C17 witness: a click was ignored while a route was planned and
\* auto-refresh was on, so a change of a point would have posted a request.
C17_Witness ==
  /\ ev.kind = "MapClick"
  /\ ~ev.changed
  /\ selecting = "none"
  /\ autoRefresh
  /\ result # NoResult
  /\ chosenRoute # NoRoute

\* C18: a numeric edit of start or end is taken over in every pick-target
\* state, leaves picking at the value it had, and leaves the other point
\* unchanged.
C18_EditsKeepPicking ==
  [][ /\ ev'.kind = "EditStart"
           => (start' = ev'.at /\ end' = end /\ selecting' = selecting)
      /\ ev'.kind = "EditEnd"
           => (end' = ev'.at /\ start' = start /\ selecting' = selecting) ]_vars

\* C18 witness: the end latitude was typed while the end target was armed.
C18_Witness ==
  /\ ev.kind = "EditEnd"
  /\ selecting = "end"
  /\ end.lat = 286129
  /\ end = ev.at

\* A point with a latitude in [-90, 90] and a longitude in [-180, 180],
\* both numbers.
ValidPoint(p) ==
  /\ p.lat # NaN /\ p.lat >= -900000 /\ p.lat <= 900000
  /\ p.lon # NaN /\ p.lon >= -1800000 /\ p.lon <= 1800000

\* C19: no plan request and no trip payload is sent that carries a start or
\* end with a latitude outside [-90, 90], a longitude outside [-180, 180],
\* or a coordinate that is not a number.
C19_MalformedNeverSent ==
  /\ \A k \in 1..Len(posted) :
        ValidPoint(posted[k].body.start) /\ ValidPoint(posted[k].body.end)
  /\ \A k \in 1..Len(creates) :
        /\ ValidPoint(creates[k].body.origin)
        /\ ValidPoint(creates[k].body.destination)

\* ------------------------------------------------ claims: bookmark store
\* The number of bookmarks in the persisted entry.
PersistedLen == IF storage.kind = "json" THEN Len(storage.items) ELSE 0

\* C20: in every reachable state the bookmark collection holds at most 20
\* entries, in memory and in the persisted entry, whatever sequence of
\* add, remove and startup load led to it.
C20_AtMostTwentyBookmarks ==
  /\ Len(bookmarks) <= 20
  /\ PersistedLen <= 20

\* C20 witness: a bookmark was added to a full collection loaded at
\* startup; memory and the persisted entry hold 20 bookmarks, the new one
\* first.
C20_Witness ==
  /\ ev.kind = "AddBookmark"
  /\ Len(bookmarks) = 20
  /\ bookmarks[1].id = now - 1
  /\ bookmarks[20].id < 0
  /\ storage = Stored(bookmarks)

\* C21: add with a name that is not blank puts the new bookmark -- trimmed
\* name, current start and end -- at the head and keeps the bookmarks it
\* found behind it in their order; a collection that already held 20 loses
\* exactly its last, oldest bookmark.
C21_AddPrependsAndEvictsOldest ==
  [][ (ev'.kind = "AddBookmark" /\ Trim(bookmarkName) # <<>>)
        => /\ bookmarks'[1].name = Trim(bookmarkName)
           /\ bookmarks'[1].start = start
           /\ bookmarks'[1].end = end
           /\ Len(bookmarks) < 20 => Tail(bookmarks') = bookmarks
           /\ Len(bookmarks) = 20
                => Tail(bookmarks') = SubSeq(bookmarks, 1, 19) ]_vars

\* C21 witness: the bookmark ' h ' was added as 'h' to a full collection
\* while the start latitude was no number; the oldest of the stored
\* bookmarks, id -19, is gone and the one before it is now the last.
C21_Witness ==
  /\ ev.kind = "AddBookmark"
  /\ Len(bookmarks) = 20
  /\ bookmarks[1].name = << "h" >>
  /\ bookmarks[1].start.lat = NaN
  /\ bookmarks[1].id > 0
  /\ bookmarks[20].id = -18

\* C22: add with a name that is empty or only whitespace changes neither
\* the bookmarks in memory nor the persisted entry and writes nothing.
C22_BlankNameIsNoOp ==
  [][ (ev'.kind = "AddBookmark" /\ bookmarkName \in {<<>>, << " " >>})
        => /\ bookmarks' = bookmarks
           /\ storage' = storage
           /\ bookmarkName' = bookmarkName ]_vars

\* C22 witness: Add was pressed with a name of one blank while nothing was
\* stored and localStorage worked; a write would have created the entry.
C22_Witness ==
  /\ ev.kind = "AddBookmark"
  /\ bookmarkName = << " " >>
  /\ storageOk
  /\ storage = Absent
  /\ bookmarks = <<>>

\* C23: after an add or a remove whose storage write succeeded the
\* persisted entry reads back as the collection in memory: every bookmark
\* with the same id, name, start and end at the same position.
C23_PersistedRoundTrip ==
  (storageOk /\ ev.kind \in {"AddBookmark", "DeleteBookmark"})
    => LoadBookmarks(storage, TRUE) = bookmarks

\* C24: an add or a remove whose storage write fails still puts the new
\* collection in memory and runs to its end, whatever failed writes came
\* before it; the persisted entry stays as it was.
C24_FailedWriteKeepsMemory ==
  [][ ~storageOk
        => /\ (ev'.kind = "AddBookmark" /\ Trim(bookmarkName) # <<>>)
                => /\ Len(bookmarks') = (IF Len(bookmarks) < 20
                                         THEN Len(bookmarks) + 1 ELSE 20)
                   /\ bookmarks'[1].id = now
                   /\ bookmarkName' = <<>>
                   /\ storage' = storage
           /\ ev'.kind = "DeleteBookmark"
                => /\ \E i \in 1..Len(bookmarks) :
                        bookmarks' = Without(bookmarks, i)
                   /\ storage' = storage ]_vars

\* C24 witness: with setItem throwing, a bookmark was added to the
\* full stored collection and another then removed; memory holds 19, the
\* new one first, and the full array is still what is stored.
C24_Witness ==
  /\ ~storageOk
  /\ ev.kind = "DeleteBookmark"
  /\ storage = Stored(FullBookmarks)
  /\ Len(bookmarks) = 19
  /\ bookmarks[1].id > 0

\* The ids and names of a bookmark array, in order.
Labels(items) ==
  [ j \in 1..Len(items) |-> << items[j].id, items[j].name >> ]

\* C25: remove(id) takes out the bookmark with that id and nothing else:
\* the others stay in their order and are what is persisted; removing an id
\* that no bookmark has leaves the collection as it is.
C25_RemoveOnlyThatId ==
  [][ /\ ev'.kind = "DeleteBookmark"
           => /\ \E i \in 1..Len(bookmarks) :
                   bookmarks' = Without(bookmarks, i)
              /\ storageOk
                   => /\ storage'.kind = "json"
                      /\ Labels(storage'.items) = Labels(bookmarks')
      /\ \A id \in {now, -MaxBookmarks} :
           Remove(bookmarks, id) = bookmarks ]_vars

\* C25 witness: the second of three bookmarks was removed; the newest and
\* the stored one are left, in that order, in memory and in storage.
C25_Witness ==
  /\ ev.kind = "DeleteBookmark"
  /\ storageOk
  /\ Len(bookmarks) = 2
  /\ bookmarks[1].id = 2
  /\ bookmarks[2].id = 0
  /\ Labels(storage.items) = Labels(bookmarks)

\* C26: the startup load is total: with the persisted entry absent,
\* unreadable, or not parsing to a bookmark array the collection starts
\* empty; with an entry that is read and parses to an array the collection
\* is that array.
C26_StartupLoadTotal ==
  ev.kind = "mount"
    => /\ (storage.kind # "json" \/ ~IsArray(storage.items))
            => bookmarks = <<>>
       /\ (storage.kind = "json" /\ IsArray(storage.items))
            => (bookmarks = <<>> \/ bookmarks = storage.items)
       /\ (storage.kind = "json" /\ IsArray(storage.items) /\ storageOk)
            => bookmarks = storage.items

\* C27: using a bookmark sets start and end to the bookmark's points and
\* leaves mode, time of day, the pick target, the bookmark collection and
\* the persisted entry as they are.
C27_UseSetsPointsOnly ==
  [][ ev'.kind = "UseBookmark"
        => /\ \E i \in 1..Len(bookmarks) :
                start' = bookmarks[i].start /\ end' = bookmarks[i].end
           /\ mode' = mode
           /\ timeOfDay' = timeOfDay
           /\ selecting' = selecting
           /\ bookmarks' = bookmarks
           /\ storage' = storage ]_vars

\* C27 witness: the stored bookmark was used in night_safe mode at night
\* with the end target armed; both points are the bookmark's.
C27_Witness ==
  /\ ev.kind = "UseBookmark"
  /\ ev.changed
  /\ start = bookmarks[1].start
  /\ end = bookmarks[1].end
  /\ mode = "night_safe"
  /\ timeOfDay = "night"
  /\ selecting = "end"

\* ----------------------------------------------- claims: logging a route
HasGeometry(c) == c # NoRoute /\ Len(RouteOf(c).geometry) > 0

FirstPoint(c) == RouteOf(c).geometry[1]

LastPoint(c) == RouteOf(c).geometry[Len(RouteOf(c).geometry)]

\* Two candidates with the same first point, last point and rounded
\* distance.
SameInputs(a, b) ==
  /\ FirstPoint(a) = FirstPoint(b)
  /\ LastPoint(a) = LastPoint(b)
  /\ RoundM(RouteOf(a).distance_m) = RoundM(RouteOf(b).distance_m)

\* A point with its coordinates rounded to four decimals.
Rounded4(p) == << (p[1] + 5) \div 10, (p[2] + 5) \div 10 >>

\* Two candidates whose first points and last points agree to four
\* decimals and whose rounded distances are the same.
SameRoundedInputs(a, b) ==
  /\ Rounded4(FirstPoint(a)) = Rounded4(FirstPoint(b))
  /\ Rounded4(LastPoint(a)) = Rounded4(LastPoint(b))
  /\ RoundM(RouteOf(a).distance_m) = RoundM(RouteOf(b).distance_m)

\* C28 (as stated): the route id of a logged candidate and that of the
\* candidate chosen now are the same if and only if the two agree on first
\* geometry point, last geometry point and rounded distance; with no
\* candidate chosen the id is empty.
C28_RouteIdIffSameInputs ==
  /\ chosenRoute = NoRoute => RouteId(chosenRoute) = <<>>
  /\ \A k \in 1..Len(creates) :
        (HasGeometry(creates[k].route) /\ HasGeometry(chosenRoute))
          => (creates[k].body.route_id = RouteId(chosenRoute)
                <=> SameInputs(creates[k].route, chosenRoute))

\* C28 (amended): the two ids are the same if and only if the candidates
\* agree on first and last geometry point rounded to four decimals and on
\* the rounded distance; with no candidate chosen, or one without
\* geometry, the id is empty.
C28_RouteIdIffSameRoundedInputs ==
  /\ ~HasGeometry(chosenRoute) => RouteId(chosenRoute) = <<>>
  /\ \A k \in 1..Len(creates) :
        (HasGeometry(creates[k].route) /\ HasGeometry(chosenRoute))
          => (creates[k].body.route_id = RouteId(chosenRoute)
                <=> SameRoundedInputs(creates[k].route, chosenRoute))

\* C28 witness: candidate 1 was logged and then the alternative starting
\* 0.00002 degree from it was chosen; it has the id the logged trip carries.
C28_Witness ==
  /\ ev.kind = "SelectAlternative"
  /\ Len(creates) = 1
  /\ creates[1].route = 1
  /\ chosenRoute = 4
  /\ FirstPoint(1) # FirstPoint(4)
  /\ creates[1].body.route_id = RouteId(4)

\* distance_m / 1000 rounded to three decimals, in thousandths of a km.
Km3(distance_m) == (distance_m + 5) \div 10

\* C29: the distance of the displayed summary and the distance_km of every
\* trip payload are the chosen candidate's distance_m / 1000 rounded to
\* three decimals (1650 m give 1.650 km), and the payload's route_id is the
\* computed route id when that is not empty and a timestamp otherwise.
C29_DistanceAndRouteIdOfChosen ==
  /\ Km3(16500) = 1650
  /\ (result # NoResult /\ chosenRoute # NoRoute)
       => result.distance_km = Km3(RouteOf(chosenRoute).distance_m)
  /\ \A k \in 1..Len(creates) :
        LET r == creates[k].route
            b == creates[k].body IN
        /\ b.distance_km = Km3(RouteOf(r).distance_m)
        /\ IF RouteId(r) # <<>> THEN b.route_id = RouteId(r)
           ELSE (Len(b.route_id) = 1 /\ b.route_id[1] <= now)

\* ----------------------------------------------- claims: the trip filter
\* The position of a trip in the cache.
CachePos(t) == CHOOSE i \in 1..Len(trips) : trips[i] = t

\* The visible list is the whole cache for 'all' and otherwise the cached
\* trips of the filter's mode, each once, in cache order.
ViewOfCache ==
  LET v == VisibleTrips IN
  IF tripFilter = "all" THEN v = trips
  ELSE /\ \A j \in 1..Len(v) :
            /\ v[j].mode = tripFilter
            /\ \E i \in 1..Len(trips) : trips[i] = v[j]
       /\ \A i \in 1..Len(trips) :
            trips[i].mode = tripFilter
              => \E j \in 1..Len(v) : v[j] = trips[i]
       /\ \A j, k \in 1..Len(v) :
            j < k => CachePos(v[j]) < CachePos(v[k])

\* C30: changing the trip filter changes neither the cached trips nor the
\* cached summary and sends no request, and the visible list always is the
\* whole cache for 'all' and otherwise exactly the cached trips whose mode
\* is the filter, in cache order.
C30_FilterIsDerivedView ==
  [][ /\ ev'.kind = "SetTripFilter"
           => /\ trips' = trips
              /\ summary' = summary
              /\ loads' = loads
              /\ creates' = creates
              /\ deletes' = deletes
              /\ inflight' = inflight
              /\ posted' = posted
      /\ ViewOfCache' ]_vars

\* C30 witness: the filter was set to night_safe over a cache of three
\* trips; the first and the third are visible, in that order.
C30_Witness ==
  /\ ev.kind = "SetTripFilter"
  /\ tripFilter = "night_safe"
  /\ Len(trips) = 3
  /\ summary # NoSummary
  /\ Len(VisibleTrips) = 2
  /\ VisibleTrips[1]._id = "t1"
  /\ VisibleTrips[2]._id = "t3"


\* ----------------------------------------------- claims: plan requests
\* A plan request is in flight and no plan response has been applied since
\* it was posted.
C31_Unanswered == \E i \in 1..Len(inflight) : ~inflight[i].answered

\* C31: showSafest clears before it calls -- in the state that posts a plan
\* request the chosen route is none and the alternatives are empty, and they
\* stay so while a request is in flight that no applied response has
\* followed; Save this trip then sends nothing.
C31_ClearedWhileInFlight ==
  [][ /\ posted' # <<>> => (chosenRoute' = NoRoute /\ alternatives' = <<>>)
      /\ C31_Unanswered' => (chosenRoute' = NoRoute /\ alternatives' = <<>>)
      /\ (C31_Unanswered /\ ev'.kind = "LogTrip") => creates' = creates
    ]_vars

\* C31 witness: a second plan was requested after a first one had been
\* applied, and Save this trip was handled while it was in flight.
C31_Witness ==
  /\ ev.kind = "LogTrip"
  /\ Len(inflight) = 1
  /\ ~inflight[1].answered
  /\ lastResponse # <<>>
  /\ chosenRoute = NoRoute
  /\ alternatives = <<>>
  /\ creates = <<>>


\* ------------------------------------------- planning, then saving a trip
\* Plan responses for the two modes.
SavePlanBodies ==
  { [mode |-> "balanced", chosen |-> 1, alternatives |-> << <<2>> >>],
    [mode |-> "night_safe", chosen |-> 3, alternatives |-> << <<2>> >>] }

\* Planning with the buttons and the effect, every request answered with a
\* plan, editing the inputs, choosing an alternative, and saving the trip.
NextSave ==
  \/ ShowSafest
  \/ \E m \in Modes : QuickCompare(m)
  \/ \E m \in Modes : SetMode(m)
  \/ \E v \in LatInputs : EditStartLat(v)
  \/ ToggleAutoRefresh
  \/ \E i \in 1..MaxInflight, data \in SavePlanBodies : PlanResolve(i, data)
  \/ \E i \in 1..2 : SelectAlternative(i)
  \/ LogTrip
  \/ \E i \in 1..MaxCreates : CreateReject(i)

SpecSave == InitTraced /\ [][NextSave]_vars

\* C32 (as stated): once every plan request in flight has resolved with a
\* plan, the route, alternatives and summary held are those of the response
\* to the request that was issued last, whatever the order of the responses:
\* the response applied last was not for a request that a later one had
\* already been answered for.
C32_LastIssuedWins ==
  (ev.kind = "PlanResolve" /\ inflight = <<>>)
    => /\ ~lastResponse[1].overtaken
       /\ chosenRoute = lastResponse[1].data.chosen
       /\ alternatives = OrEmpty(lastResponse[1].data.alternatives)
       /\ result = Summary(lastResponse[1].data)

\* C33 (as stated): the origin, destination and mode that logTrip posts are
\* the start, end and mode of the plan request whose response produced the
\* chosen route or the alternatives it was selected from.
C33_SavedTripDescribesPlan ==
  [][ (ev'.kind = "LogTrip" /\ creates' # creates)
        => LET b == creates'[Len(creates')].body IN
           /\ appliedFor # <<>>
           /\ b.origin = appliedFor[1].start
           /\ b.destination = appliedFor[1].end
           /\ b.mode = appliedFor[1].mode ]_vars

\* C34 (as stated): "Re-run" on a past trip posts exactly one plan request,
\* with the trip's origin, destination and mode, whether auto recompute is
\* on or off and whether or not a summary is held.
C34_ReRunPostsOnce ==
  [][ ev'.kind = "ReRunTrip"
        => /\ Len(posted') = 1
           /\ posted'[1].body.start = ev'.opts.start
           /\ posted'[1].body.end = ev'.opts.end
           /\ posted'[1].body.mode = ev'.opts.mode ]_vars


\* ------------------------------------------- the trip cache and the user
\* The user ids typed into the user id input: two users and the empty id.
CacheUserIds == {"user_a", "user_b", ""}

\* The body the service returns for /api/trips?user_uid=uid: each user has
\* trips of their own.
ListFor(uid) ==
  IF uid = "user_a" THEN [trips |-> << ServerTrips >>]
  ELSE [trips |-> << << [_id |-> "t3", origin |-> DefaultStart,
                         destination |-> DefaultEnd,
                         mode |-> "balanced"] >> >>]

\* The body the service returns for /api/trips/summary?user_uid=uid.
SummaryFor(uid) ==
  IF uid = "user_a"
  THEN [total_trips |-> 2, total_km |-> 3955, avg_safety |-> 68,
        favorite_mode |-> "balanced"]
  ELSE [total_trips |-> 1, total_km |-> 1650, avg_safety |-> 80,
        favorite_mode |-> "balanced"]

\* Changing the user and refreshing, with every load answered by the
\* service for the user it was called for.
NextCache ==
  \/ \E u \in CacheUserIds : SetUserId(u)
  \/ RefreshTrips
  \/ \E i \in 1..MaxLoads :
        i <= Len(loads) /\ ListResolve(i, ListFor(loads[i].uid))
  \/ \E i \in 1..MaxLoads :
        i <= Len(loads) /\ SummaryResolve(i, SummaryFor(loads[i].uid))

SpecCache == InitTrips /\ [][NextCache]_vars

\* C35 (as stated): whenever no trip load is in flight, the cached trip
\* list and summary are the ones the service returned to a load for the
\* current user id.
C35_CacheMatchesUser ==
  loads = <<>>
    => /\ userId # ""
       /\ trips = OrEmpty(ListFor(userId).trips)
       /\ summary = SummaryFor(userId)


\* --------------------------------------- claims: chosen and alternatives
\* C36: the alternatives held are empty or the list of the plan response
\* applied last, and the chosen route is none, that response's chosen
\* candidate, or one of the alternatives held.
C36_ChosenAndAlternativesOfOneResponse ==
  /\ \/ alternatives = <<>>
     \/ /\ lastResponse # <<>>
        /\ alternatives = OrEmpty(lastResponse[1].data.alternatives)
  /\ \/ chosenRoute = NoRoute
     \/ /\ lastResponse # <<>>
        /\ chosenRoute = lastResponse[1].data.chosen
     \/ \E k \in 1..Len(alternatives) : chosenRoute = alternatives[k]

\* C36 witness: of two overlapping requests the one posted first was
\* answered last, and one of its alternatives was then selected.
C36_Witness ==
  /\ ev.kind = "SelectAlternative"
  /\ lastResponse # <<>>
  /\ lastResponse[1].overtaken
  /\ chosenRoute # lastResponse[1].data.chosen
  /\ \E k \in 1..Len(alternatives) : chosenRoute = alternatives[k]


\* ------------------------------------------ planning without overrides
\* The mode and time buttons, the start latitude input, the auto recompute
\* toggle, the Show safest route button and the alternative buttons: every
\* plan request is showSafest() without options.
NextFresh ==
  \/ \E m \in Modes : SetMode(m)
  \/ \E t \in TimeBuckets : SetTimeOfDay(t)
  \/ \E v \in LatInputs : EditStartLat(v)
  \/ ToggleAutoRefresh
  \/ ShowSafest
  \/ \E i \in 1..MaxInflight, data \in SavePlanBodies : PlanResolve(i, data)
  \/ \E i \in 1..MaxInflight : PlanReject(i)
  \/ \E i \in 1..2 : SelectAlternative(i)

SpecFresh == InitTraced /\ [][NextFresh]_vars

\* The body showSafest() would post for the inputs held now.
C37_CurrentBody ==
  [start |-> start, end |-> end, mode |-> mode, time_of_day |-> timeOfDay]

\* C37 (as stated): when plan is never called with overrides, whenever auto
\* recompute is on, a route is chosen and no plan request is in flight, the
\* route was returned for a request with the start, end, mode and
\* time_of_day held now.
C37_FreshUnderAutoRefresh ==
  (autoRefresh /\ chosenRoute # NoRoute /\ inflight = <<>>)
    => /\ appliedFor # <<>>
       /\ appliedFor[1] = C37_CurrentBody


\* -------------------------------------------- bookmarks and the clock
\* The largest collection to which the bookmark buttons still add.
MaxHeld == 3

\* One bookmark stored; Add is pressed, or called, with or without the
\* clock having moved between two reads of Date.now().
InitTick == InitStore({ Stored(StoredBookmarks) })

NextTick ==
  \/ \E n \in NameInputs : SetBookmarkName(n)
  \/ \E elapsed \in {0, 1} :
        Len(bookmarks) < MaxHeld /\ AddBookmark(elapsed)
  \/ \E i \in 1..MaxHeld : DeleteBookmark(i)

SpecTick == InitTick /\ [][NextTick]_vars

\* No two bookmarks of items have the same id.
C38_Unique(items) ==
  \A i, j \in 1..Len(items) : i # j => items[i].id # items[j].id

\* C38 (as stated): the ids of the bookmarks held are pairwise different in
\* every state, also after two adds within one tick of the clock, and Delete
\* takes out at most one bookmark.
C38_IdsUnique ==
  [][ /\ C38_Unique(bookmarks)
      /\ C38_Unique(bookmarks')
      /\ ev'.kind = "DeleteBookmark"
           => Len(bookmarks') >= Len(bookmarks) - 1 ]_vars


\* --------------------------------------------- every request is answered
\* The mode and time buttons, the auto recompute toggle, the two plan
\* buttons and the answers of the service.
NextAnswered ==
  \/ \E m \in Modes : SetMode(m)
  \/ \E t \in TimeBuckets : SetTimeOfDay(t)
  \/ ToggleAutoRefresh
  \/ ShowSafest
  \/ \E m \in Modes : QuickCompare(m)
  \/ \E i \in 1..MaxInflight, data \in Responses : PlanResolve(i, data)
  \/ \E i \in 1..MaxInflight : PlanReject(i)

\* The fetch of some plan request in flight settles.
PlanAnswered ==
  \/ \E i \in 1..MaxInflight, data \in Responses : PlanResolve(i, data)
  \/ \E i \in 1..MaxInflight : PlanReject(i)

\* Every request in flight is answered in the end: a fetch resolves or
\* rejects, and its continuation is then run by the event loop.
SpecAnswered == Init /\ [][NextAnswered]_vars /\ WF_vars(PlanAnswered)

\* A step that handles the answer to a plan request.
C39_AnswerStep == ev'.kind \in {"PlanResolve", "PlanReject"}

\* C39: the step that handles an answer posts nothing and takes one request
\* out of flight; a request is posted only by a button or by the effect in a
\* render that changed mode, timeOfDay, start or end; and once only answers
\* are handled any more, no request stays in flight and none is posted.
C39_NoSelfFeeding ==
  /\ [][ /\ C39_AnswerStep
              => (posted' = <<>> /\ Len(inflight') = Len(inflight) - 1)
         /\ ~C39_AnswerStep
              => /\ Len(inflight') = Len(inflight) + Len(posted')
                 /\ \A k \in 1..Len(posted') :
                       \/ posted'[k].by \in {"button", "quick", "rerun"}
                       \/ posted'[k].by = "effect" /\ ev'.changed ]_vars
  /\ <>[][C39_AnswerStep]_vars => <>[](inflight = <<>> /\ posted = <<>>)

\* C39 witness: with auto recompute on and a summary held, the answer to the
\* last request in flight has been applied; nothing is posted or in flight.
C39_Witness ==
  /\ ev.kind = "PlanResolve"
  /\ autoRefresh
  /\ result # NoResult
  /\ chosenRoute # NoRoute
  /\ inflight = <<>>
  /\ posted = <<>>
====
